---- MODULE Spec2Model ----
(***************************************************************************)
(* Model of the liquidity pool of src/src/lp_pool/mod.rs: the pool's       *)
(* configuration and reserves, the operations init, add_liquidity,         *)
(* remove_liquidity, swap and calculate_fee, and the arithmetic they use   *)
(* (calc.rs, data/fee, data/price, data/token).                            *)
(*                                                                         *)
(* Amounts are u64 in the source.  They are modelled as AmountBits-bit     *)
(* unsigned integers, fees (u32) as FeeBits-bit unsigned integers; the     *)
(* u128 intermediates are exact integers.  Unchecked `+` and `-` on the    *)
(* primitive integers panic when the build has overflow checks (debug)     *)
(* and wrap when it has not (release): overflow_checks is that choice.     *)
(* A panic leaves the pool with the assignments made before it.            *)
(***************************************************************************)
EXTENDS Integers, FiniteSets, Sequences, TLC

AmountBits == 14
FeeBits == 14
MaxSteps == 4

Modulus == 2 ^ AmountBits
MaxU == Modulus - 1
FeeModulus == 2 ^ FeeBits

MAX_BASIS_POINTS == 10000

\* arguments the caller passes
PriceArgs == {0, 1, 2}
FeeArgs == {0, 5000, 10000, 12000}
TargetArgs == {0, 100}
AmountArgs == {0, 1, 2, 50, 100, MaxU}
BasisPointArgs == FeeArgs \cup {10, MAX_BASIS_POINTS + 1}

NONE == 0 - 1

VARIABLES
    overflow_checks,        \* build profile: TRUE = debug, FALSE = release
    phase,                  \* "new", "ready" (init returned a pool), "failed"
    price, min_fee, max_fee, liquidity_target,
    token_amount, staked_token_amount, lp_token_amount,
    last,                   \* the last call: operation, argument, outcome, results
    steps

config == <<price, min_fee, max_fee, liquidity_target>>
reserves == <<token_amount, staked_token_amount, lp_token_amount>>
vars == <<overflow_checks, phase, price, min_fee, max_fee, liquidity_target,
          token_amount, staked_token_amount, lp_token_amount, last, steps>>

----------------------------------------------------------------------------
\* calc.rs

\* the product taken in the amount's own width instead of the u128
proportional_narrow(amount, numerator, denominator) ==
    IF denominator = 0
    THEN [ok |-> TRUE, val |-> amount]
    ELSE [ok |-> TRUE, val |-> ((amount * numerator) % Modulus) \div denominator]

\* the quotient truncated to the amount's width instead of checked
proportional_truncating(amount, numerator, denominator) ==
    IF denominator = 0
    THEN [ok |-> TRUE, val |-> amount]
    ELSE [ok |-> TRUE, val |-> ((amount * numerator) \div denominator) % Modulus]

proportional(amount, numerator, denominator) ==
    IF denominator = 0
    THEN [ok |-> TRUE, val |-> amount]
    ELSE LET q == (amount * numerator) \div denominator
         IN IF q > MaxU THEN [ok |-> FALSE, val |-> NONE]
                        ELSE [ok |-> TRUE, val |-> q]

\* total value and total shares exchanged
value_from_shares_swapped(shares, total_value, total_shares) ==
    proportional(shares, total_shares, total_value)

value_from_shares(shares, total_value, total_shares) ==
    proportional(shares, total_value, total_shares)

----------------------------------------------------------------------------
\* data/fee

from_basis_points(basis_points) == basis_points

\* the bound itself rejected
check_inclusive(basis_points) ==
    IF basis_points >= MAX_BASIS_POINTS THEN "BasisPointsOverflow" ELSE "Ok"

check(basis_points) ==
    IF basis_points > MAX_BASIS_POINTS THEN "BasisPointsOverflow" ELSE "Ok"

\* the fee returned instead of the amount less the fee
apply_fee_only(basis_points, lamports) ==
    [outcome |-> "ok", val |-> (lamports * basis_points) \div MAX_BASIS_POINTS]

\* Fee::apply: "ok" with the amount left, "err" (CalculationError), or
\* "panic" (lamports - fee underflows with overflow checks on)
apply(basis_points, lamports) ==
    LET fee == (lamports * basis_points) \div MAX_BASIS_POINTS
    IN IF fee > MaxU THEN [outcome |-> "err", val |-> NONE]
       ELSE IF fee > lamports
            THEN IF overflow_checks
                 THEN [outcome |-> "panic", val |-> NONE]
                 ELSE [outcome |-> "ok", val |-> (lamports - fee + Modulus) % Modulus]
            ELSE [outcome |-> "ok", val |-> lamports - fee]

----------------------------------------------------------------------------
\* data/price

\* the product scaled down by the price's two decimals
mul_by_price_scaled(lamports) ==
    LET p == (lamports * price) \div 100
    IN IF p > MaxU THEN [ok |-> FALSE, val |-> NONE] ELSE [ok |-> TRUE, val |-> p]

mul_by_price(lamports) ==
    LET p == lamports * price
    IN IF p > MaxU THEN [ok |-> FALSE, val |-> NONE] ELSE [ok |-> TRUE, val |-> p]

\* the quotient rounded up
div_by_price_ceil(lamports) ==
    IF price = 0 THEN [ok |-> FALSE, val |-> NONE]
    ELSE [ok |-> TRUE, val |-> (lamports + price - 1) \div price]

div_by_price(lamports) ==
    IF price = 0 THEN [ok |-> FALSE, val |-> NONE]
    ELSE [ok |-> TRUE, val |-> lamports \div price]

----------------------------------------------------------------------------
\* lp_pool/mod.rs

\* the subtrahend forgotten
saturating_sub_none(a, b) == a

saturating_sub(a, b) == IF a >= b THEN a - b ELSE 0

\* the interpolation run upward from min_fee
calculate_fee_rising(amount_after) ==
    IF amount_after >= liquidity_target
    THEN [panic |-> FALSE, bp |-> min_fee]
    ELSE LET pr == proportional(saturating_sub(max_fee, min_fee), amount_after,
                                liquidity_target)
         IN [panic |-> FALSE, bp |-> min_fee + pr.val]

\* the reserve and the target exchanged in the interpolation
calculate_fee_inverted(amount_after) ==
    IF amount_after >= liquidity_target
    THEN [panic |-> FALSE, bp |-> min_fee]
    ELSE LET fee_delta == saturating_sub(max_fee, min_fee)
             pr == proportional(fee_delta, liquidity_target, amount_after)
         IN IF ~pr.ok THEN [panic |-> TRUE, bp |-> NONE]
            ELSE LET t == pr.val % FeeModulus
                 IN IF t > max_fee
                    THEN IF overflow_checks
                         THEN [panic |-> TRUE, bp |-> NONE]
                         ELSE [panic |-> FALSE, bp |-> (max_fee - t + FeeModulus) % FeeModulus]
                    ELSE [panic |-> FALSE, bp |-> max_fee - t]

calculate_fee(amount_after) ==
    IF amount_after >= liquidity_target
    THEN [panic |-> FALSE, bp |-> min_fee]
    ELSE LET fee_delta == saturating_sub(max_fee, min_fee)
             pr == proportional(fee_delta, amount_after, liquidity_target)
         IN IF ~pr.ok THEN [panic |-> TRUE, bp |-> NONE]
            ELSE LET t == pr.val % FeeModulus
                 IN IF t > max_fee
                    THEN IF overflow_checks
                         THEN [panic |-> TRUE, bp |-> NONE]
                         ELSE [panic |-> FALSE, bp |-> (max_fee - t + FeeModulus) % FeeModulus]
                    ELSE [panic |-> FALSE, bp |-> max_fee - t]

\* the LP debit saturating at zero instead of checked
lp_sub_assign_saturating(lhs, rhs) ==
    [ok |-> TRUE, val |-> IF rhs > lhs THEN 0 ELSE lhs - rhs]

\* LpTokenAmount::sub_assign: checked_sub, panic on underflow
lp_sub_assign(lhs, rhs) ==
    IF rhs > lhs THEN [ok |-> FALSE, val |-> NONE]
    ELSE [ok |-> TRUE, val |-> lhs - rhs]

\* the outcome of a call: what it returned and the reserves it left
Res(o, t, s, l, r1, r2, f, a) ==
    [outcome |-> o, t |-> t, s |-> s, l |-> l, ret |-> r1, ret2 |-> r2,
     fee |-> f, after |-> a]

Panic(t, s, l, f, a) == Res("panic", t, s, l, NONE, NONE, f, a)

\* equal fees rejected
InitResult_strict(p, mn, mx, target) ==
    IF mn >= mx THEN "MinFeeGreaterThanMaxFee"
    ELSE IF target = 0 THEN "LiquidityTargetIncorrect"
    ELSE IF p = 0 THEN "PriceIncorrect"
    ELSE "Ok"

\* the price checked first
InitResult_reordered(p, mn, mx, target) ==
    IF p = 0 THEN "PriceIncorrect"
    ELSE IF mn > mx THEN "MinFeeGreaterThanMaxFee"
    ELSE IF target = 0 THEN "LiquidityTargetIncorrect"
    ELSE "Ok"

InitResult(p, mn, mx, target) ==
    IF mn > mx THEN "MinFeeGreaterThanMaxFee"
    ELSE IF target = 0 THEN "LiquidityTargetIncorrect"
    ELSE IF p = 0 THEN "PriceIncorrect"
    ELSE "Ok"

AddLiquidity(tokens_to_add) ==
    LET T == token_amount
        S == staked_token_amount
        L == lp_token_amount
        sum == T + tokens_to_add
    IN IF sum > MaxU /\ overflow_checks THEN Panic(T, S, L, NONE, NONE)
       ELSE
       LET after == sum % Modulus
           fee == calculate_fee(after)
       IN IF fee.panic THEN Panic(T, S, L, NONE, after)
          ELSE
          LET m == apply(fee.bp, tokens_to_add)
          IN IF m.outcome # "ok" THEN Res(m.outcome, T, S, L, NONE, NONE, fee.bp, after)
             ELSE IF T + m.val > MaxU THEN Panic(T, S, L, fee.bp, after)
             ELSE
             LET T1 == T + m.val
                 st == div_by_price(m.val)
             IN IF ~st.ok THEN Panic(T1, S, L, fee.bp, after)
                ELSE IF S + st.val > MaxU THEN Panic(T1, S, L, fee.bp, after)
                ELSE IF L + m.val > MaxU THEN Panic(T1, S + st.val, L, fee.bp, after)
                ELSE Res("ok", T1, S + st.val, L + m.val, m.val, NONE, fee.bp, after)

RemoveLiquidity(lp_tokens_to_remove) ==
    LET T == token_amount
        S == staked_token_amount
        L == lp_token_amount
        v == value_from_shares(lp_tokens_to_remove, T, L)
    IN IF ~v.ok THEN Res("err", T, S, L, NONE, NONE, NONE, NONE)
       ELSE IF v.val > T /\ overflow_checks THEN Panic(T, S, L, NONE, NONE)
       ELSE
       LET after == (T - v.val + Modulus) % Modulus
           fee == calculate_fee(after)
       IN IF fee.panic THEN Panic(T, S, L, NONE, after)
          ELSE
          LET p == apply(fee.bp, v.val)
          IN IF p.outcome # "ok" THEN Res(p.outcome, T, S, L, NONE, NONE, fee.bp, after)
             ELSE
             LET u == div_by_price(p.val)
             IN IF ~u.ok THEN Panic(T, S, L, fee.bp, after)
                ELSE IF p.val > T THEN Panic(T, S, L, fee.bp, after)
                ELSE IF u.val > S THEN Panic(T - p.val, S, L, fee.bp, after)
                ELSE IF ~lp_sub_assign(L, lp_tokens_to_remove).ok
                     THEN Panic(T - p.val, S - u.val, L, fee.bp, after)
                ELSE Res("ok", T - p.val, S - u.val,
                         lp_sub_assign(L, lp_tokens_to_remove).val,
                         p.val, u.val, fee.bp, after)

\* the tokens paid out also burnt from the LP supply
Swap_burning(staked_tokens_to_swap) ==
    LET T == token_amount
        S == staked_token_amount
        L == lp_token_amount
        v == mul_by_price(staked_tokens_to_swap)
    IN IF ~v.ok THEN Panic(T, S, L, NONE, NONE)
       ELSE IF v.val > T /\ overflow_checks THEN Panic(T, S, L, NONE, NONE)
       ELSE
       LET after == (T - v.val + Modulus) % Modulus
           fee == calculate_fee(after)
       IN IF fee.panic THEN Panic(T, S, L, NONE, after)
          ELSE
          LET p == apply(fee.bp, v.val)
          IN IF p.outcome # "ok" THEN Res(p.outcome, T, S, L, NONE, NONE, fee.bp, after)
             ELSE IF p.val > T THEN Panic(T, S, L, fee.bp, after)
             ELSE IF S + staked_tokens_to_swap > MaxU
                  THEN Panic(T - p.val, S, L, fee.bp, after)
             ELSE IF p.val > L THEN Panic(T - p.val, S + staked_tokens_to_swap, L,
                                          fee.bp, after)
             ELSE Res("ok", T - p.val, S + staked_tokens_to_swap, L - p.val,
                      p.val, NONE, fee.bp, after)

Swap(staked_tokens_to_swap) ==
    LET T == token_amount
        S == staked_token_amount
        L == lp_token_amount
        v == mul_by_price(staked_tokens_to_swap)
    IN IF ~v.ok THEN Panic(T, S, L, NONE, NONE)
       ELSE IF v.val > T /\ overflow_checks THEN Panic(T, S, L, NONE, NONE)
       ELSE
       LET after == (T - v.val + Modulus) % Modulus
           fee == calculate_fee(after)
       IN IF fee.panic THEN Panic(T, S, L, NONE, after)
          ELSE
          LET p == apply(fee.bp, v.val)
          IN IF p.outcome # "ok" THEN Res(p.outcome, T, S, L, NONE, NONE, fee.bp, after)
             ELSE IF p.val > T THEN Panic(T, S, L, fee.bp, after)
             ELSE IF S + staked_tokens_to_swap > MaxU
                  THEN Panic(T - p.val, S, L, fee.bp, after)
             ELSE Res("ok", T - p.val, S + staked_tokens_to_swap, L,
                      p.val, NONE, fee.bp, after)

----------------------------------------------------------------------------
\* the state machine

Call(name, a, r) ==
    [op |-> name, arg |-> a, outcome |-> r.outcome, ret |-> r.ret,
     ret2 |-> r.ret2, fee |-> r.fee, after |-> r.after]

Init ==
    /\ overflow_checks \in BOOLEAN
    /\ phase = "new"
    /\ price = 0
    /\ min_fee = 0
    /\ max_fee = 0
    /\ liquidity_target = 0
    /\ token_amount = 0
    /\ staked_token_amount = 0
    /\ lp_token_amount = 0
    /\ last = [op |-> "none", arg |-> NONE, outcome |-> "none", ret |-> NONE,
               ret2 |-> NONE, fee |-> NONE, after |-> NONE]
    /\ steps = 0

init ==
    /\ phase = "new"
    /\ \E p \in PriceArgs, mn \in FeeArgs, mx \in FeeArgs, target \in TargetArgs :
          LET r == InitResult(p, mn, mx, target)
          IN /\ IF r = "Ok"
                THEN /\ phase' = "ready"
                     /\ price' = p
                     /\ min_fee' = mn
                     /\ max_fee' = mx
                     /\ liquidity_target' = target
                ELSE /\ phase' = "failed"
                     /\ UNCHANGED config
             /\ last' = [op |-> "init", arg |-> <<p, mn, mx, target>>,
                         outcome |-> r, ret |-> NONE, ret2 |-> NONE,
                         fee |-> NONE, after |-> NONE]
    /\ token_amount' = 0
    /\ staked_token_amount' = 0
    /\ lp_token_amount' = 0
    /\ UNCHANGED <<overflow_checks, steps>>

\* the token reserve also written to liquidity_target
Commit_retarget(name, a, r) ==
    /\ token_amount' = r.t
    /\ liquidity_target' = r.t
    /\ staked_token_amount' = r.s
    /\ lp_token_amount' = r.l
    /\ last' = Call(name, a, r)
    /\ steps' = steps + 1
    /\ UNCHANGED <<overflow_checks, phase, price, min_fee, max_fee>>

Commit(name, a, r) ==
    /\ token_amount' = r.t
    /\ staked_token_amount' = r.s
    /\ lp_token_amount' = r.l
    /\ last' = Call(name, a, r)
    /\ steps' = steps + 1
    /\ UNCHANGED <<overflow_checks, phase, config>>

add_liquidity ==
    /\ phase = "ready"
    /\ steps < MaxSteps
    /\ \E tokens_to_add \in AmountArgs :
          Commit("add_liquidity", tokens_to_add, AddLiquidity(tokens_to_add))

remove_liquidity ==
    /\ phase = "ready"
    /\ steps < MaxSteps
    /\ \E lp_tokens_to_remove \in AmountArgs :
          Commit("remove_liquidity", lp_tokens_to_remove,
                 RemoveLiquidity(lp_tokens_to_remove))

swap ==
    /\ phase = "ready"
    /\ steps < MaxSteps
    /\ \E staked_tokens_to_swap \in AmountArgs :
          Commit("swap", staked_tokens_to_swap, Swap(staked_tokens_to_swap))

calculate_fee_call ==
    /\ phase = "ready"
    /\ steps < MaxSteps
    /\ \E amount_after \in AmountArgs :
          LET f == calculate_fee(amount_after)
          IN last' = [op |-> "calculate_fee", arg |-> amount_after,
                      outcome |-> IF f.panic THEN "panic" ELSE "ok",
                      ret |-> f.bp, ret2 |-> NONE, fee |-> f.bp,
                      after |-> amount_after]
    /\ steps' = steps + 1
    /\ UNCHANGED <<overflow_checks, phase, config, reserves>>

\* the fee type and the calculator, used by the caller before the pool exists
fee_apply ==
    /\ phase = "new"
    /\ \E bp \in BasisPointArgs, lamports \in AmountArgs :
          LET r == apply(from_basis_points(bp), lamports)
          IN last' = [op |-> "Fee::apply", arg |-> <<bp, lamports>>,
                      outcome |-> r.outcome, ret |-> r.val, ret2 |-> NONE,
                      fee |-> from_basis_points(bp), after |-> NONE]
    /\ UNCHANGED <<overflow_checks, phase, config, reserves, steps>>

fee_check ==
    /\ phase = "new"
    /\ \E bp \in BasisPointArgs :
          LET r == check(from_basis_points(bp))
          IN last' = [op |-> "Fee::check", arg |-> bp, outcome |-> r,
                      ret |-> IF r = "Ok" THEN NONE ELSE from_basis_points(bp),
                      ret2 |-> NONE, fee |-> from_basis_points(bp),
                      after |-> NONE]
    /\ UNCHANGED <<overflow_checks, phase, config, reserves, steps>>

proportional_call ==
    /\ phase = "new"
    /\ \E amount \in AmountArgs, numerator \in AmountArgs, denominator \in AmountArgs :
          LET r == proportional(amount, numerator, denominator)
          IN last' = [op |-> "proportional",
                      arg |-> <<amount, numerator, denominator>>,
                      outcome |-> IF r.ok THEN "ok" ELSE "err",
                      ret |-> r.val, ret2 |-> NONE, fee |-> NONE, after |-> NONE]
    /\ UNCHANGED <<overflow_checks, phase, config, reserves, steps>>

Next ==
    \/ fee_apply
    \/ fee_check
    \/ proportional_call
    \/ init
    \/ add_liquidity
    \/ remove_liquidity
    \/ swap
    \/ calculate_fee_call

Spec == Init /\ [][Next]_vars

\* the pool driven by a caller that stops at the first failing call
AfterSuccess == last.outcome \in {"Ok", "ok"}

add_liquidity_next == AfterSuccess /\ add_liquidity
remove_liquidity_next == AfterSuccess /\ remove_liquidity
swap_next == AfterSuccess /\ swap
calculate_fee_next == AfterSuccess /\ calculate_fee_call

NextOk ==
    \/ init
    \/ add_liquidity_next
    \/ remove_liquidity_next
    \/ swap_next
    \/ calculate_fee_next

SpecOk == Init /\ [][NextOk]_vars

TypeOK ==
    /\ overflow_checks \in BOOLEAN
    /\ phase \in {"new", "ready", "failed"}
    /\ token_amount \in 0..MaxU
    /\ staked_token_amount \in 0..MaxU
    /\ lp_token_amount \in 0..MaxU
    /\ steps \in 0..MaxSteps

----------------------------------------------------------------------------
\* properties

PoolOps == {"add_liquidity", "remove_liquidity", "swap"}

\* the fee curve as the specification writes it
FeeCurve(a) ==
    IF a >= liquidity_target
    THEN min_fee
    ELSE max_fee - ((max_fee - min_fee) * a) \div liquidity_target

\* amounts at which the fee curve is probed
FeeProbe == (0..(liquidity_target + 1)) \cup AmountArgs

\* the caller's amounts and the amounts around the target
FeeProbeNear ==
    AmountArgs \cup {liquidity_target - 1, liquidity_target, liquidity_target + 1}

\* C1: whenever a call to add_liquidity, remove_liquidity or swap fails,
\* token_amount, staked_token_amount and lp_token_amount keep the values
\* they had before the call.
C1_FailureAtomicity ==
    [][(last'.op \in PoolOps /\ last'.outcome # "ok") => UNCHANGED reserves]_vars

\* C2: with min_fee = 0 and the hypothetical reserve after the add and after
\* the removal both at or above the target, add_liquidity(X) followed
\* immediately by remove_liquidity of the LP tokens minted returns X tokens.
C2_RoundTrip ==
    [][(/\ min_fee = 0
        /\ last.op = "add_liquidity" /\ last.outcome = "ok"
        /\ last.after >= liquidity_target /\ last.fee = 0
        /\ last'.op = "remove_liquidity" /\ last'.arg = last.ret
        /\ last'.outcome = "ok"
        /\ last'.after >= liquidity_target /\ last'.fee = 0)
       => last'.ret = last.arg]_vars

\* C3: with lp_token_amount > 0, remove_liquidity(lp_token_amount) returns
\* calculate_fee(0).apply(token_amount) tokens and leaves lp_token_amount = 0.
C3_RedeemAll ==
    [][(/\ last'.op = "remove_liquidity"
        /\ lp_token_amount > 0
        /\ last'.arg = lp_token_amount)
       => (/\ last'.outcome = "ok"
           /\ last'.ret = apply(calculate_fee(0).bp, token_amount).val
           /\ lp_token_amount' = 0)]_vars

\* C4: no operation succeeds after its hypothetical reserve wrapped:
\* a successful add_liquidity has token_amount + tokens_to_add <= 2^w - 1,
\* a successful remove_liquidity a pro-rata share <= token_amount, and a
\* successful swap has price * staked_tokens_to_swap <= 2^w - 1 and
\* <= token_amount.
C4_NoWraparound ==
    [][(last'.op \in PoolOps /\ last'.outcome = "ok") =>
         /\ last'.op = "add_liquidity" => token_amount + last'.arg <= MaxU
         /\ last'.op = "remove_liquidity" =>
               (IF lp_token_amount = 0 THEN last'.arg
                ELSE (last'.arg * token_amount) \div lp_token_amount) <= token_amount
         /\ last'.op = "swap" =>
               /\ price * last'.arg <= MaxU
               /\ price * last'.arg <= token_amount]_vars

\* C5: a successful add_liquidity(X) on a reserve T uses
\* fee = calculate_fee(T + X), m = fee.apply(X), adds m to token_amount,
\* floor(m / price_points) to staked_token_amount and m to lp_token_amount,
\* and returns m.
C5_AddLiquidity ==
    [][(last'.op = "add_liquidity" /\ last'.outcome = "ok") =>
         LET X == last'.arg
             fee == calculate_fee(token_amount + X).bp
             m == apply(fee, X).val
         IN /\ last'.fee = fee
            /\ token_amount' = token_amount + m
            /\ staked_token_amount' = staked_token_amount + m \div price
            /\ lp_token_amount' = lp_token_amount + m
            /\ last'.ret = m]_vars

\* C6: a successful remove_liquidity(n) on reserves (T, S, L) computes
\* w = floor(n * T / L) (w = n when L = 0), fee = calculate_fee(T - w),
\* p = fee.apply(w), u = floor(p / price_points); it takes p from
\* token_amount, u from staked_token_amount and the full n from
\* lp_token_amount, and returns (p, u).
C6_RemoveLiquidity ==
    [][(last'.op = "remove_liquidity" /\ last'.outcome = "ok") =>
         LET n == last'.arg
             w == IF lp_token_amount = 0 THEN n
                  ELSE (n * token_amount) \div lp_token_amount
             fee == calculate_fee(token_amount - w).bp
             p == apply(fee, w).val
             u == p \div price
         IN /\ last'.fee = fee
            /\ token_amount' = token_amount - p
            /\ staked_token_amount' = staked_token_amount - u
            /\ lp_token_amount' = lp_token_amount - n
            /\ last'.ret = p
            /\ last'.ret2 = u]_vars

C6_Witness ==
    /\ last.op = "remove_liquidity"
    /\ last.outcome = "ok"
    /\ last.fee > 0
    /\ 0 < last.ret2 /\ last.ret2 < last.ret
    /\ last.ret < last.arg

\* C7: a successful swap(s) on a reserve T computes v = price_points * s,
\* fee = calculate_fee(T - v), p = fee.apply(v); it takes p from
\* token_amount, adds the full s to staked_token_amount, and returns p.
C7_Swap ==
    [][(last'.op = "swap" /\ last'.outcome = "ok") =>
         LET s == last'.arg
             v == price * s
         IN /\ v <= token_amount      \* T - v is a reserve
            /\ LET fee == calculate_fee(token_amount - v).bp
                   p == apply(fee, v).val
               IN /\ last'.fee = fee
                  /\ token_amount' = token_amount - p
                  /\ staked_token_amount' = staked_token_amount + s
                  /\ last'.ret = p]_vars

\* C8: calculate_fee(a) is min_fee when a >= liquidity_target and otherwise
\* max_fee - floor((max_fee - min_fee) * a / liquidity_target);
\* calculate_fee(0) = max_fee.
C8_FeeCurve ==
    /\ (phase = "ready" /\ last.op = "init") =>
          /\ \A a \in FeeProbe :
                /\ ~calculate_fee(a).panic
                /\ calculate_fee(a).bp = FeeCurve(a)
          /\ calculate_fee(0).bp = max_fee
    /\ last.op = "calculate_fee" =>
          /\ last.outcome = "ok"
          /\ last.ret = FeeCurve(last.arg)
          /\ last.arg = 0 => last.ret = max_fee

C8_Witness ==
    /\ last.op = "calculate_fee"
    /\ last.outcome = "ok"
    /\ 0 < last.arg /\ last.arg < liquidity_target
    /\ min_fee < last.ret /\ last.ret < max_fee

\* C9: for every pool returned by init, every fee calculate_fee returns lies
\* in [min_fee, max_fee], and so does every fee an operation applies.
C9_FeeInRange ==
    /\ (phase = "ready" /\ last.op = "init") =>
          \A a \in FeeProbe :
              /\ min_fee <= calculate_fee(a).bp
              /\ calculate_fee(a).bp <= max_fee
    /\ (last.op \in PoolOps \cup {"calculate_fee"} /\ last.fee # NONE) =>
          /\ min_fee <= last.fee
          /\ last.fee <= max_fee

C9_Witness ==
    /\ last.op \in PoolOps
    /\ last.outcome = "ok"
    /\ 0 < min_fee
    /\ min_fee < last.fee /\ last.fee < max_fee

\* C10: calculate_fee is monotonically decreasing: for every pool returned
\* by init, a <= b implies calculate_fee(b) <= calculate_fee(a).
C10_FeeMonotone ==
    /\ (phase = "ready" /\ last.op = "init") =>
          \A a \in FeeProbe, b \in FeeProbe :
              a <= b => calculate_fee(b).bp <= calculate_fee(a).bp
    /\ last.op = "calculate_fee" =>
          \A b \in FeeProbeNear :
              /\ last.arg <= b => calculate_fee(b).bp <= last.ret
              /\ b <= last.arg => last.ret <= calculate_fee(b).bp

C10_Witness ==
    /\ last.op = "calculate_fee"
    /\ last.outcome = "ok"
    /\ \E b \in FeeProbe : last.arg < b /\ calculate_fee(b).bp < last.ret
    /\ \E b \in FeeProbe : b < last.arg /\ last.ret < calculate_fee(b).bp

\* C11: for every pool init returns, min_fee, max_fee and every fee
\* calculate_fee returns are at most 10000 basis points, so that a pool
\* operation never deducts more than the amount.
C11_FeeRange ==
    phase = "ready" =>
        /\ 0 <= min_fee /\ min_fee <= MAX_BASIS_POINTS
        /\ 0 <= max_fee /\ max_fee <= MAX_BASIS_POINTS
        /\ (last.op \in PoolOps \cup {"calculate_fee"} /\ last.fee # NONE) =>
              (0 <= last.fee /\ last.fee <= MAX_BASIS_POINTS)

\* C12: with min_fee <= max_fee, liquidity_target > 0 and price > 0, init
\* succeeds; the pool's reserves are zero and its price, min_fee, max_fee
\* and liquidity_target are the arguments.
C12_InitSucceeds ==
    last.op = "init" =>
        ((/\ last.arg[2] <= last.arg[3]
          /\ last.arg[4] > 0
          /\ last.arg[1] > 0)
         => (/\ last.outcome = "Ok"
             /\ phase = "ready"
             /\ token_amount = 0
             /\ staked_token_amount = 0
             /\ lp_token_amount = 0
             /\ config = last.arg))

C12_Witness ==
    /\ last.op = "init"
    /\ phase = "ready"
    /\ last.arg[2] = last.arg[3]
    /\ price = 2

\* C13: init produces no pool and fails with MinFeeGreaterThanMaxFee when
\* min_fee > max_fee, otherwise with LiquidityTargetIncorrect when
\* liquidity_target = 0, otherwise with PriceIncorrect when price = 0.
C13_InitErrors ==
    last.op = "init" =>
        LET p == last.arg[1]
            mn == last.arg[2]
            mx == last.arg[3]
            target == last.arg[4]
        IN /\ mn > mx => last.outcome = "MinFeeGreaterThanMaxFee"
           /\ (mn <= mx /\ target = 0) => last.outcome = "LiquidityTargetIncorrect"
           /\ (mn <= mx /\ target # 0 /\ p = 0) => last.outcome = "PriceIncorrect"
           /\ (mn > mx \/ target = 0 \/ p = 0) => phase = "failed"

C13_Witness ==
    /\ last.op = "init"
    /\ last.arg[2] > last.arg[3]
    /\ last.arg[4] = 0
    /\ last.arg[1] = 0
    /\ last.outcome = "MinFeeGreaterThanMaxFee"
    /\ phase = "failed"

\* C14: after a successful init no call, successful or failing, changes
\* price, liquidity_target, min_fee or max_fee, so min_fee <= max_fee,
\* liquidity_target > 0 and price > 0 hold in every state of a pool.
C14_ConfigImmutable ==
    [][phase' = "ready" =>
         /\ min_fee' <= max_fee'
         /\ liquidity_target' > 0
         /\ price' > 0
         /\ phase = "ready" => config' = config]_vars

C14_Witness ==
    /\ phase = "ready"
    /\ steps >= 2
    /\ last.op \in PoolOps
    /\ last.outcome = "panic"
    /\ token_amount > 0

\* C15: for a fee of at most 10000 basis points Fee.apply(amount) returns
\* amount - floor(amount * basis_points / 10000), which is never more than
\* amount.
C15_FeeApply ==
    /\ (last.op = "Fee::apply" /\ last.arg[1] <= MAX_BASIS_POINTS) =>
          /\ last.outcome = "ok"
          /\ last.ret = last.arg[2] - (last.arg[2] * last.arg[1]) \div MAX_BASIS_POINTS
          /\ 0 <= last.ret /\ last.ret <= last.arg[2]
    /\ (/\ last.op = "add_liquidity" /\ last.outcome = "ok"
        /\ last.fee <= MAX_BASIS_POINTS) =>
          /\ last.ret = last.arg - (last.arg * last.fee) \div MAX_BASIS_POINTS
          /\ last.ret <= last.arg

C15_Witness ==
    /\ last.op = "Fee::apply"
    /\ 0 < last.arg[1] /\ last.arg[1] < MAX_BASIS_POINTS
    /\ last.outcome = "ok"
    /\ 0 < last.ret /\ last.ret < last.arg[2]

\* C16: Fee.check() fails with BasisPointsOverflow(n) exactly when n > 10000
\* and succeeds for every n in 0..10000; from_basis_points never fails and
\* does not validate.
C16_FeeCheck ==
    last.op = "Fee::check" =>
        /\ last.fee = last.arg
        /\ last.arg > MAX_BASIS_POINTS =>
              (last.outcome = "BasisPointsOverflow" /\ last.ret = last.arg)
        /\ last.arg \in 0..MAX_BASIS_POINTS => last.outcome = "Ok"

C16_Witness ==
    /\ last.op = "Fee::check"
    /\ last.arg = MAX_BASIS_POINTS + 1
    /\ last.outcome = "BasisPointsOverflow"

\* C17: proportional(amount, numerator, denominator) returns amount when
\* denominator = 0; otherwise floor(amount * numerator / denominator), and
\* it fails with CalculationError exactly when that quotient does not fit
\* the amount width.
C17_Proportional ==
    last.op = "proportional" =>
        LET amount == last.arg[1]
            numerator == last.arg[2]
            denominator == last.arg[3]
        IN /\ denominator = 0 => (last.outcome = "ok" /\ last.ret = amount)
           /\ denominator # 0 =>
                 LET q == (amount * numerator) \div denominator
                 IN /\ q <= MaxU => (last.outcome = "ok" /\ last.ret = q)
                    /\ q > MaxU => last.outcome = "err"

C17_Witness ==
    /\ last.op = "proportional"
    /\ last.arg[3] # 0
    /\ last.outcome = "err"

\* C18: Price.multiply(x) is x * price_points and fails when the product
\* does not fit the amount width; Price.divide(x) is floor(x / price_points)
\* for every price init accepts; neither scales any further.
C18_PriceConversions ==
    [][phase = "ready" =>
         /\ \A x \in AmountArgs :
               /\ mul_by_price(x).ok <=> x * price <= MaxU
               /\ mul_by_price(x).ok => mul_by_price(x).val = x * price
               /\ div_by_price(x).ok
               /\ div_by_price(x).val * price <= x
               /\ x < (div_by_price(x).val + 1) * price
         /\ last'.op = "swap" =>
               /\ price * last'.arg > MaxU =>
                     (last'.outcome = "panic" /\ UNCHANGED reserves)
               /\ (last'.outcome = "ok" /\ last'.fee = 0) =>
                     last'.ret = price * last'.arg
         /\ (last'.op = "add_liquidity" /\ last'.outcome = "ok") =>
               staked_token_amount' - staked_token_amount
                   = (token_amount' - token_amount) \div price
         /\ (last'.op = "remove_liquidity" /\ last'.outcome = "ok") =>
               last'.ret2 = last'.ret \div price]_vars

C18_Witness ==
    /\ last.op = "swap"
    /\ last.outcome = "ok"
    /\ price = 2
    /\ last.fee = 0
    /\ last.arg > 0
    /\ last.ret = 2 * last.arg

\* C19: in every state reached from a successful init by successful
\* operations, remove_liquidity(n) with 0 < n <= lp_token_amount succeeds.
C19_WithdrawalAvailable ==
    [][(/\ last'.op = "remove_liquidity"
        /\ 0 < last'.arg
        /\ last'.arg <= lp_token_amount)
       => last'.outcome = "ok"]_vars

\* C20: remove_liquidity(n) with n > lp_token_amount never succeeds and
\* returns no tokens, also when lp_token_amount = 0 and token_amount > 0.
C20_OverRedemptionRejected ==
    [][(last'.op = "remove_liquidity" /\ last'.arg > lp_token_amount) =>
         /\ last'.outcome # "ok"
         /\ last'.ret = NONE
         /\ last'.ret2 = NONE
         /\ lp_token_amount' = lp_token_amount]_vars

C20_Witness ==
    /\ last.op = "remove_liquidity"
    /\ last.outcome # "ok"
    /\ lp_token_amount = 0
    /\ token_amount > 0
    /\ 0 < last.arg /\ last.arg <= token_amount

\* C21: for every pool init returns and every amount below the target, the
\* interpolation term proportional(max_fee - min_fee, amount, target) is at
\* most max_fee - min_fee: the unwrap does not fail, the narrowing does not
\* truncate and the subtraction from max_fee does not underflow.
C21_FeeTotal ==
    /\ (phase = "ready" /\ last.op = "init") =>
          \A a \in FeeProbe :
              /\ ~calculate_fee(a).panic
              /\ a < liquidity_target =>
                    LET pr == proportional(max_fee - min_fee, a, liquidity_target)
                    IN /\ pr.ok
                       /\ pr.val <= max_fee - min_fee
                       /\ pr.val < FeeModulus
                       /\ pr.val <= max_fee
                       /\ calculate_fee(a).bp = max_fee - pr.val
    /\ last.op = "calculate_fee" => (last.outcome = "ok" /\ last.ret # NONE)
    /\ (last.op \in PoolOps /\ last.after # NONE) => last.fee # NONE

C21_Witness ==
    /\ last.op \in PoolOps
    /\ last.after # NONE
    /\ 0 < last.after /\ last.after < liquidity_target
    /\ min_fee < max_fee
    /\ last.fee < max_fee

\* C22: a successful swap leaves lp_token_amount as it was, so the token
\* reserve behind each LP token falls while no LP token is burnt.
C22_SwapKeepsLp ==
    [][(last'.op = "swap" /\ last'.outcome = "ok") =>
         /\ lp_token_amount' = lp_token_amount
         /\ token_amount' = token_amount - last'.ret]_vars

C22_Witness ==
    /\ last.op = "swap"
    /\ last.outcome = "ok"
    /\ last.ret > 0
    /\ token_amount < lp_token_amount

\* amounts at which the price conversions are probed
PriceProbe == AmountArgs \cup {3, 99, MaxU - 1}

\* C23: for price_points >= 1 and a staked amount s whose product with the
\* price fits the amount width, from_tokens(from_staked_tokens(s)) = s; in
\* the other direction from_staked_tokens(from_tokens(t)) <= t.
C23_PriceRoundTrip ==
    (phase = "ready" /\ price >= 1) =>
        /\ \A x \in PriceProbe :
              /\ mul_by_price(x).ok =>
                    /\ div_by_price(mul_by_price(x).val).ok
                    /\ div_by_price(mul_by_price(x).val).val = x
              /\ div_by_price(x).ok
              /\ mul_by_price(div_by_price(x).val).ok
              /\ mul_by_price(div_by_price(x).val).val <= x
        /\ (last.op = "remove_liquidity" /\ last.outcome = "ok") =>
              /\ mul_by_price(last.ret2).ok
              /\ mul_by_price(last.ret2).val <= last.ret
        /\ (last.op = "swap" /\ last.outcome = "ok" /\ last.fee = 0) =>
              div_by_price(last.ret).val = last.arg

C23_Witness ==
    /\ last.op = "remove_liquidity"
    /\ last.outcome = "ok"
    /\ price = 2
    /\ last.ret2 > 0
    /\ mul_by_price(last.ret2).val < last.ret

====
